---- MODULE Spec2Model ----
(***************************************************************************)
(* A model of gridwxcomp/spatial.py: the fishnet grid builder, the bounds *)
(* calculator, the surface interpolator and the zonal aggregator, acting   *)
(* on the files of one input directory.                                    *)
(*                                                                         *)
(* Coordinates are exact integers counted in half gridMET cells, so that   *)
(* cell edges of the reference grid lie on even numbers and cell centroids *)
(* on odd numbers.  np.isclose on such coordinates is equality.            *)
(***************************************************************************)
EXTENDS Integers, Sequences, FiniteSets, TLC

VARIABLES in_df,      \* the table of the input summary CSV
          in_file,    \* the file name of the input summary CSV
          cell_data,  \* rows of the gridMET metadata CSV (the catalog)
          pkg,        \* what pkg_resources answers for the packaged catalog
          cwd_meta,   \* TRUE iff ./gridmet_cell_data.csv exists
          spatial,    \* the layers in <dir of in_path>/spatial, by file name
          rasters,    \* the GeoTIFF files below spatial/, by path
          csv,        \* the zonal summary tables beside in_path, by file name
          ret,        \* the last call: its name, arguments, exception, value
          pts,        \* scattered points handed to the inverse distance code
          main        \* where a call of main stands: its arguments and step

vars == <<in_df, in_file, cell_data, pkg, cwd_meta, spatial, rasters, csv, ret, pts, main>>

----------------------------------------------------------------------------
(* Bounds of the model *)

MaxBuffer == 1     \* buffer arguments range over 0..MaxBuffer
MaxPts == 2        \* rows of an input table handed to get_subgrid_bounds

(* Program constants *)

CELL_SIZE == 2     \* one gridMET cell, in half cells
NO_ID == 0 - 999   \* the GRIDMET_ID of a cell outside the catalog

None == "None"

----------------------------------------------------------------------------
(* Small helpers *)

(* A variant that rounds down. *)
Floor(a, b) == a \div b

Ceil(a, b) == 0 - ((0 - a) \div b)

Abs(a) == IF a < 0 THEN 0 - a ELSE a

SetMin(S) == CHOOSE m \in S : \A o \in S : m <= o

SetMax(S) == CHOOSE m \in S : \A o \in S : m >= o

Range(s) == {s[i] : i \in DOMAIN s}

RECURSIVE Concat(_)
Concat(ss) == IF ss = <<>> THEN <<>> ELSE Head(ss) \o Concat(Tail(ss))

(* Ascending sort of a sequence of integers (DataFrame.sort_values). *)
RECURSIVE SortedValues(_)
SortedValues(s) ==
    IF s = <<>> THEN <<>>
    ELSE LET m == SetMin(Range(s))
             i == CHOOSE j \in DOMAIN s : s[j] = m /\ \A k \in 1..(j-1) : s[k] # m
         IN <<m>> \o SortedValues(SubSeq(s, 1, i-1) \o SubSeq(s, i+1, Len(s)))

(* str.replace(old, new) on a name held as a sequence of tokens. *)
RECURSIVE Replace(_, _, _)
Replace(name, old, new) ==
    IF name = <<>> THEN <<>>
    ELSE (IF Head(name) = old THEN new ELSE <<Head(name)>>)
         \o Replace(Tail(name), old, new)

----------------------------------------------------------------------------
(* The input summary table *)

(* The name the input file has unless said otherwise, cut at "_" and at    *)
(* ".", and a name that is no file of the same directory.                  *)
in_path == <<"etr", "mm", "summary", "comp", ".csv">>
no_path == <<"etr", "mm", "summary", ".csv">>

(* file_name.split('_summ')[0]: the tokens before the first "_summ...". *)
grid_var(file_name) ==
    LET k == CHOOSE j \in DOMAIN file_name :
                 file_name[j] = "summary" /\ \A i \in 1..(j-1) : file_name[i] # "summary"
    IN SubSeq(file_name, 1, k-1)

NaN == [nan |-> TRUE, v |-> 0]
Num(v) == [nan |-> FALSE, v |-> v]
isnan(x) == x.nan

(* The columns of mean ratios make_points_file reads, and one it does not. *)
MeanColumns ==
    << <<"Jan", "mean">>, <<"Feb", "mean">>, <<"Mar", "mean">>, <<"Apr", "mean">>,
       <<"May", "mean">>, <<"Jun", "mean">>, <<"Jul", "mean">>, <<"Aug", "mean">>,
       <<"Sep", "mean">>, <<"Oct", "mean">>, <<"Nov", "mean">>, <<"Dec", "mean">>,
       <<"April", "to", "oct", "mean">>, <<"Annual", "mean">>,
       <<"June", "to", "aug", "mean">> >>

BaseColumns == << <<"STATION", "ID">>, <<"GRIDMET", "ID">>, <<"LON">>, <<"LAT">>,
                 <<"STATION", "LON">>, <<"STATION", "LAT">> >>

(* gridMET centroid (LON, LAT) and location of the stations of the model. *)
Sites == << [LON |-> 3, LAT |-> 3, STATION_LON |-> 3, STATION_LAT |-> 3],
            [LON |-> 5, LAT |-> 3, STATION_LON |-> 4, STATION_LAT |-> 3],
            [LON |-> 5, LAT |-> 5, STATION_LON |-> 5, STATION_LAT |-> 4],
            [LON |-> 3, LAT |-> 5, STATION_LON |-> 3, STATION_LAT |-> 5] >>

(* The catalog of the model: the reference cells with these centroids. *)
CatalogLons == <<1, 3, 5>>
CatalogLats == <<1, 3, 5>>

Catalog ==
    [k \in 1..(Len(CatalogLons) * Len(CatalogLats)) |->
        LET lon == CatalogLons[((k - 1) % Len(CatalogLons)) + 1]
            lat == CatalogLats[((k - 1) \div Len(CatalogLons)) + 1]
        IN [GRIDMET_ID |-> 100 * lat + lon, LON |-> lon, LAT |-> lat]]

(* The input table of the stations at sites; the pairs <<station, column>> *)
(* in missing have no value.                                               *)
InputTable(sites, missing) ==
    [columns |-> BaseColumns \o MeanColumns,
     rows |-> [i \in DOMAIN sites |->
        [c \in Range(BaseColumns) \cup Range(MeanColumns) |->
            CASE c = <<"STATION", "ID">> -> i
              [] c = <<"GRIDMET", "ID">> -> 100 * sites[i].LAT + sites[i].LON
              [] c = <<"LON">> -> sites[i].LON
              [] c = <<"LAT">> -> sites[i].LAT
              [] c = <<"STATION", "LON">> -> sites[i].STATION_LON
              [] c = <<"STATION", "LAT">> -> sites[i].STATION_LAT
              [] OTHER -> IF <<i, c>> \in missing THEN NaN ELSE Num(i)]]]

----------------------------------------------------------------------------
(* get_subgrid_bounds *)

FileNotFoundError == "FileNotFoundError"
TypeError == "TypeError"
IndexError == "IndexError"
AttributeError == "AttributeError"
KeyError == "KeyError"
IOError == "IOError"
OK == "ok"

(* A table is [columns, rows]; a row maps each column name to its value.   *)
(* A CSV file has a header, so the table of no columns stands for no file. *)
NoFile == [columns |-> <<>>, rows |-> <<>>]

Column(df, c) == [i \in DOMAIN df.rows |-> df.rows[i][c]]

(* pd.read_csv(path) and os.path.isfile(path) for an input table path:     *)
(* in_file names the table in_df, every other path names no file.          *)
read_csv(path) == IF path = in_file THEN in_df ELSE NoFile

isfile(path) == read_csv(path) # NoFile

(* A variant that takes the count of buffer cells for their extent. *)
buffer_in_cells(buffer) == buffer

(* expand bounding extent based on buffer cells *)
buffer_extent(buffer) == CELL_SIZE * buffer

get_subgrid_bounds(path, buffer) ==
    LET df == read_csv(path) IN
    IF ~isfile(path) THEN [exc |-> FileNotFoundError, value |-> <<>>]
    ELSE IF df.rows = <<>> THEN [exc |-> IndexError, value |-> <<>>]
    ELSE LET lons == SortedValues(Column(df, <<"LON">>))
             lats == SortedValues(Column(df, <<"LAT">>))
             lon_min == lons[1] - CELL_SIZE \div 2
             lon_max == lons[Len(lons)] + CELL_SIZE \div 2
             lat_min == lats[1] - CELL_SIZE \div 2
             lat_max == lats[Len(lats)] + CELL_SIZE \div 2
         IN [exc |-> OK,
             value |-> << lon_min - buffer_extent(buffer), lon_max + buffer_extent(buffer),
                          lat_min - buffer_extent(buffer), lat_max + buffer_extent(buffer) >>]

----------------------------------------------------------------------------
(* Catalog path resolution, as written in _update_subgrid and interpolate *)

(* gridmet_meta_path is None or names a file; "meta.csv" is a catalog file. *)
path_exists(p) == p = "meta.csv" \/ p = "pkg/gridmet_cell_data.csv"
                  \/ (p = "gridmet_cell_data.csv" /\ cwd_meta)

resolve_meta(gridmet_meta_path) ==
    LET looked ==
            IF gridmet_meta_path = None
            THEN CASE pkg = "exists" -> "pkg/gridmet_cell_data.csv"
                   [] pkg = "absent" -> None
                   [] pkg = "raises" -> "gridmet_cell_data.csv"
            ELSE gridmet_meta_path
    IN IF looked = None THEN [exc |-> TypeError, path |-> looked]
       ELSE IF ~path_exists(looked) THEN [exc |-> FileNotFoundError, path |-> looked]
       ELSE [exc |-> OK, path |-> looked]

----------------------------------------------------------------------------
(* get_cell_ID *)

(* The ring of a cell with the given left, right, top and bottom edges. *)
Ring(xl, xr, yt, yb) ==
    << <<xl, yt>>, <<xr, yt>>, <<xr, yb>>, <<xl, yb>>, <<xl, yt>> >>

(* Polygon(coords).bounds: (minx, miny, maxx, maxy). *)
PolygonBounds(coords) ==
    << SetMin({coords[i][1] : i \in DOMAIN coords}),
       SetMin({coords[i][2] : i \in DOMAIN coords}),
       SetMax({coords[i][1] : i \in DOMAIN coords}),
       SetMax({coords[i][2] : i \in DOMAIN coords}) >>

(* A variant that looks the lower left corner up in place of the centroid. *)
lower_left_corner(bounds) == <<bounds[1], bounds[2]>>

(* lon_c, lat_c: the lower left corner plus half a cell in each axis. *)
cell_centroid(bounds) ==
    <<bounds[1] + CELL_SIZE \div 2, bounds[2] + CELL_SIZE \div 2>>

get_cell_ID(coords, meta_df) ==
    LET c == cell_centroid(PolygonBounds(coords))
        row == SelectSeq(meta_df, LAMBDA r : r.LON = c[1] /\ r.LAT = c[2])
    IN IF Len(row) = 1 THEN row[1].GRIDMET_ID ELSE NO_ID

----------------------------------------------------------------------------
(* make_grid and _update_subgrid *)

grid_shp == <<"grid", ".shp">>

NoProps == [p \in {} |-> 0]

(* The features make_grid creates, in the order it creates them. *)
Fishnet(bounds) ==
    LET xmin == bounds[1]
        xmax == bounds[2]
        ymin == bounds[3]
        ymax == bounds[4]
        rows == Ceil(ymax - ymin, CELL_SIZE)
        cols == Ceil(xmax - xmin, CELL_SIZE)
        n == IF rows > 0 /\ cols > 0 THEN rows * cols ELSE 0
        countcols(k) == ((k - 1) \div rows) + 1
        countrows(k) == ((k - 1) % rows) + 1
        ringXleftOrigin(k) == xmin + (countcols(k) - 1) * CELL_SIZE
        ringYtop(k) == ymax - (countrows(k) - 1) * CELL_SIZE
    IN [k \in 1..n |->
          [geometry |-> Ring(ringXleftOrigin(k), ringXleftOrigin(k) + CELL_SIZE,
                             ringYtop(k), ringYtop(k) - CELL_SIZE),
           properties |-> NoProps]]

(* '_tmp' in f, and f.replace('_tmp', '') *)
HasTmp(f) == \E i \in 2..Len(f) : f[i] = "tmp"

StripTmp(f) == <<Head(f)>> \o Replace(Tail(f), "tmp", <<>>)

(* The loop over os.listdir(root_dir) that moves every '_tmp' file. *)
RECURSIVE MoveTmp(_)
MoveTmp(dir) ==
    IF \A f \in DOMAIN dir : ~HasTmp(f) THEN dir
    ELSE LET f == CHOOSE g \in DOMAIN dir : HasTmp(g)
             kept == DOMAIN dir \ {f}
         IN MoveTmp([g \in kept \cup {StripTmp(f)} |->
                        IF g = StripTmp(f) THEN dir[f] ELSE dir[g]])

(* The layer _update_subgrid writes to tmp_out. *)
WithIDs(source, meta_df) ==
    [features |-> [k \in DOMAIN source.features |->
                     [geometry |-> source.features[k].geometry,
                      properties |-> [GRIDMET_ID |->
                          get_cell_ID(source.features[k].geometry, meta_df)]]],
     crs |-> "EPSG:4326"]

_update_subgrid(dir, grid_path, gridmet_meta_path) ==
    IF grid_path \notin DOMAIN dir THEN [exc |-> FileNotFoundError, spatial |-> dir]
    ELSE LET meta == resolve_meta(gridmet_meta_path)
             tmp_out == Replace(grid_path, ".shp", <<"tmp", ".shp">>)
             gridmet_meta_df == cell_data
             written == [f \in DOMAIN dir \cup {tmp_out} |->
                           IF f = tmp_out THEN WithIDs(dir[grid_path], gridmet_meta_df)
                           ELSE dir[f]]
         IN IF meta.exc # OK THEN [exc |-> meta.exc, spatial |-> dir]
            ELSE [exc |-> OK, spatial |-> MoveTmp(written)]

(* A variant that builds the grid whether or not one exists. *)
always_rebuilt(dir, overwrite) == FALSE

(* os.path.isfile(out_path) and not overwrite *)
skip_building(dir, overwrite) == grid_shp \in DOMAIN dir /\ ~overwrite

(* A variant that adds the new cells to the layer that is there. *)
appended_layer(dir, features) ==
    [features |-> (IF grid_shp \in DOMAIN dir THEN dir[grid_shp].features ELSE <<>>)
                  \o features,
     crs |-> None]

(* os.remove(out_path) and a new data source with the one layer. *)
new_layer(dir, features) == [features |-> features, crs |-> None]

(* A variant that returns without building a grid. *)
grid_not_built(path, bounds, buffer, overwrite, gridmet_meta_path) ==
    [exc |-> OK, did |-> "not overwriting", spatial |-> spatial]

make_grid(path, bounds, buffer, overwrite, gridmet_meta_path) ==
    LET b == IF bounds = <<>> THEN get_subgrid_bounds(path, buffer)
             ELSE [exc |-> OK, value |-> bounds]
        created == [f \in DOMAIN spatial \cup {grid_shp} |->
                      IF f = grid_shp
                      THEN new_layer(spatial, Fishnet(b.value))
                      ELSE spatial[f]]
        updated == _update_subgrid(created, grid_shp, gridmet_meta_path)
    IN IF ~isfile(path)
       THEN [exc |-> FileNotFoundError, did |-> "raised", spatial |-> spatial]
       ELSE IF skip_building(spatial, overwrite)
       THEN [exc |-> OK, did |-> "not overwriting", spatial |-> spatial]
       ELSE IF b.exc # OK
       THEN [exc |-> b.exc, did |-> "raised", spatial |-> spatial]
       ELSE [exc |-> updated.exc,
             did |-> IF updated.exc = OK THEN "saved" ELSE "raised",
             spatial |-> updated.spatial]

----------------------------------------------------------------------------
(* make_points_file *)

(* The fields of the point layer and the columns they are read from. *)
PointFields ==
    [Jan |-> <<"Jan", "mean">>, Feb |-> <<"Feb", "mean">>, Mar |-> <<"Mar", "mean">>,
     Apr |-> <<"Apr", "mean">>, May |-> <<"May", "mean">>, Jun |-> <<"Jun", "mean">>,
     Jul |-> <<"Jul", "mean">>, Aug |-> <<"Aug", "mean">>, Sep |-> <<"Sep", "mean">>,
     Oct |-> <<"Oct", "mean">>, Nov |-> <<"Nov", "mean">>, Dec |-> <<"Dec", "mean">>,
     grow_season |-> <<"April", "to", "oct", "mean">>,
     annual |-> <<"Annual", "mean">>,
     STATION_ID |-> <<"STATION", "ID">>,
     GRIDMET_ID |-> <<"GRIDMET", "ID">>]

make_points_file(path) ==
    LET df == read_csv(path)
        out_file == grid_var(path) \o <<"summary", "pts", ".shp">>
        known == \A f \in DOMAIN PointFields : PointFields[f] \in Range(df.columns)
        layer == [features |->
                     IF known
                     THEN [i \in DOMAIN df.rows |->
                             [geometry |-> << df.rows[i][<<"STATION", "LON">>],
                                              df.rows[i][<<"STATION", "LAT">>] >>,
                              properties |-> [f \in DOMAIN PointFields |->
                                                 df.rows[i][PointFields[f]]]]]
                     ELSE <<>>,
                  crs |-> "EPSG:4326"]
    IN IF ~isfile(path) THEN [exc |-> FileNotFoundError, spatial |-> spatial]
       ELSE [exc |-> IF known \/ df.rows = <<>> THEN OK ELSE KeyError,
             spatial |-> [f \in DOMAIN spatial \cup {out_file} |->
                            IF f = out_file THEN layer ELSE spatial[f]]]

----------------------------------------------------------------------------
(* gridmet_zonal_stats *)


GRIDMET_ID == <<"GRIDMET", "ID">>

(* '{}'.format(res) for the resolutions in use, and '{}m' around it. *)
str(res) == CASE res = 4000 -> "4000" [] res = 2000 -> "2000"
              [] res = 1333 -> "1333" [] res = 1000 -> "1000"
              [] res = 1600 -> "1600"

Meters(digits) == CASE digits = "4000" -> "4000m" [] digits = "2000" -> "2000m"
                    [] digits = "1333" -> "1333m" [] digits = "1000" -> "1000m"
                    [] digits = "1600" -> "1600m"

AllDigits == {"4000", "2000", "1600", "1333", "1000"}

(* A raster path spatial/<dir>/[<out>/]<file>.tiff: dir and file are cut at *)
(* "_"; out is None or the name of one subdirectory.                        *)
(* The match of reg_exp: [^_]+_[^_]+_ takes the first two tokens of dir,    *)
(* (\d+)m the last one, (.+) the tokens between, and group 4 the file.      *)
reg_exp(raster) ==
    LET d == raster.dir
        n == Len(d)
    IN IF n >= 4 /\ (\E g \in AllDigits : d[n] = Meters(g))
       THEN [matched |-> TRUE,
             function |-> SubSeq(d, 3, n - 1),
             res |-> CHOOSE g \in AllDigits : d[n] = Meters(g),
             var_name |-> raster.file]
       ELSE [matched |-> FALSE, function |-> <<>>, res |-> "", var_name |-> <<>>]

(* The mean of the raster's pixels in one zone, as rasterstats returns it:  *)
(* a function of the raster and of the polygon, left uninterpreted.         *)
zonal_mean(geometry, raster_file) ==
    [zone |-> PolygonBounds(geometry), of |-> raster_file]

(* A variant of the join that keeps the first row of the table only. *)
merge_first_row(left, right, new_col) ==
    [columns |-> left.columns \o <<new_col>>,
     rows |-> [i \in DOMAIN left.rows \cap {1} |->
                 [c \in Range(left.columns) \cup {new_col} |->
                     IF c = new_col THEN right.rows[1][new_col]
                     ELSE left.rows[i][c]]]]

(* DataFrame.merge(right, on='GRIDMET_ID'): an inner join that keeps the    *)
(* order of the left rows.                                                  *)
merge(left, right, new_col) ==
    [columns |-> left.columns \o <<new_col>>,
     rows |-> Concat([i \in DOMAIN left.rows |->
                 LET hits == SelectSeq(right.rows,
                                 LAMBDA r : r[GRIDMET_ID] = left.rows[i][GRIDMET_ID])
                 IN [j \in DOMAIN hits |->
                        [c \in Range(left.columns) \cup {new_col} |->
                            IF c = new_col THEN hits[j][new_col]
                            ELSE left.rows[i][c]]]])]

(* A variant that never finds the column in the table. *)
column_added_twice(existing_df, var_name) == FALSE

(* var_name in existing_df.columns *)
has_column(existing_df, var_name) ==
    \E i \in DOMAIN existing_df.columns : existing_df.columns[i] = var_name

(* A variant that keeps the rows of the cells outside the catalog. *)
keep_outside_cells(rows) == rows

(* out_df.drop(out_df[out_df.GRIDMET_ID == -999].index) *)
drop_outside_cells(rows) == SelectSeq(rows, LAMBDA r : r[GRIDMET_ID] # NO_ID)

(* The name of the summary table the raster's zonal means go to. *)
summary_csv(path, raster) ==
    grid_var(path) \o <<"gridmet", "summary">> \o reg_exp(raster).function
        \o <<Meters(reg_exp(raster).res), ".csv">>

gridmet_zonal_stats(path, raster, files, tables) ==
    LET m == reg_exp(raster)
        out_file == summary_csv(path, raster)
        var_name == m.var_name
        source == spatial[grid_shp].features
        gridmet_ids == [k \in DOMAIN source |->
                          IF "GRIDMET_ID" \in DOMAIN source[k].properties
                          THEN <<source[k].properties.GRIDMET_ID>> ELSE <<>>]
        all_rows == [k \in DOMAIN source |->
                       [c \in {GRIDMET_ID, var_name} |->
                           IF c = GRIDMET_ID THEN gridmet_ids[k][1]
                           ELSE zonal_mean(source[k].geometry, files[raster])]]
        out_df == [columns |-> <<GRIDMET_ID, var_name>>,
                   rows |-> drop_outside_cells(all_rows)]
        written(t) == [f \in DOMAIN tables \cup {out_file} |->
                         IF f = out_file THEN t ELSE tables[f]]
        raised(e) == [exc |-> e, did |-> "raised", csv |-> tables]
    IN IF ~isfile(path) THEN raised(FileNotFoundError)
       ELSE IF ~m.matched THEN raised(AttributeError)
       ELSE IF grid_shp \notin DOMAIN spatial THEN raised(FileNotFoundError)
       ELSE IF raster \notin DOMAIN files THEN raised(IOError)
       ELSE IF \E k \in DOMAIN source : gridmet_ids[k] = <<>> THEN raised(TypeError)
       ELSE IF out_file \notin DOMAIN tables
            THEN [exc |-> OK, did |-> "created", csv |-> written(out_df)]
       ELSE IF has_column(tables[out_file], var_name)
            THEN [exc |-> OK, did |-> "passed", csv |-> tables]
       ELSE [exc |-> OK, did |-> "merged",
             csv |-> written(merge(tables[out_file], out_df, var_name))]

----------------------------------------------------------------------------
(* _pointValue and _invDist *)

(* Numbers are exact fractions num / den in lowest terms with den > 0. *)
RECURSIVE GCD(_, _)
GCD(a, b) == IF b = 0 THEN a ELSE GCD(b, a % b)

Frac(num, den) ==
    LET g == GCD(Abs(num), den) IN [num |-> num \div g, den |-> den \div g]

RECURSIVE Sum(_)
Sum(s) == IF s = <<>> THEN 0 ELSE Head(s) + Sum(Tail(s))

RECURSIVE Product(_)
Product(s) == IF s = <<>> THEN 1 ELSE Head(s) * Product(Tail(s))

IsSquare(n) == \E r \in 0..n : r * r = n

Sqrt(n) == CHOOSE r \in 0..n : r * r = n

(* pow(sqrt(d2), power): an integer when power is even or d2 is a square. *)
HasPow(d2, power) == power % 2 = 0 \/ IsSquare(d2)

pow_dist(d2, power) ==
    IF power % 2 = 0 THEN d2 ^ (power \div 2) ELSE Sqrt(d2) ^ power

(* A variant that leaves the smoothing out of the distance. *)
dist_unsmoothed(x, y, smoothing, xv, yv, i) ==
    (x - xv[i]) * (x - xv[i]) + (y - yv[i]) * (y - yv[i])

(* The square of dist for data point i.  The coordinates and the smoothing *)
(* are integers, so that dist < 0.0000000001 exactly when this is 0.       *)
dist_squared(x, y, smoothing, xv, yv, i) ==
    (x - xv[i]) * (x - xv[i]) + (y - yv[i]) * (y - yv[i]) + smoothing * smoothing

_pointValue(x, y, power, smoothing, xv, yv, values) ==
    LET n == Len(values)
        close == {i \in 1..n : dist_squared(x, y, smoothing, xv, yv, i) = 0}
        d == [i \in 1..n |-> pow_dist(dist_squared(x, y, smoothing, xv, yv, i), power)]
        others(i) == Product([j \in 1..n |-> IF j = i THEN 1 ELSE d[j]])
        \* nominator and denominator, both over the common divisor Product(d)
        nominator == Sum([i \in 1..n |-> values[i] * others(i)])
        denominator == Sum([i \in 1..n |-> others(i)])
    IN IF close # {} THEN Frac(values[SetMin(close)], 1)
       ELSE IF denominator > 0 THEN Frac(nominator, denominator)
       ELSE Frac(NO_ID, 1)

(* valuesGrid[y][x] for x in range(xsize), y in range(ysize) *)
_invDist(xv, yv, values, xsize, ysize, power, smoothing) ==
    [y \in 0..(ysize - 1) |-> [x \in 0..(xsize - 1) |->
        _pointValue(x, y, power, smoothing, xv, yv, values)]]

----------------------------------------------------------------------------
(* interpolate *)

(* np.round of num/den for den > 0: to the nearest integer, ties to even. *)
np_round(num, den) ==
    LET q == num \div den
        r == num % den
    IN IF 2 * r < den THEN q
       ELSE IF 2 * r > den THEN q + 1
       ELSE IF q % 2 = 0 THEN q ELSE q + 1

(* A variant that extends the axis with more cells. *)
long_axis_extended(n_cells, other) == n_cells > other

(* if nx_cells > ny_cells: the latitude axis grows, else the longitude     *)
(* axis: the axis that grows is the one with fewer cells.                  *)
short_axis_extended(n_cells, other) == n_cells < other

(* A scale factor is the fraction <<num, den>>.                             *)
(* int(np.round(n_cells/scale_factor))+1, the num of np.linspace           *)
n_nodes(n_cells, scale_factor) ==
    np_round(n_cells * scale_factor[2], scale_factor[1]) + 1

(* int(4 * scale_factor * 1000) *)
res(scale_factor) == (4 * scale_factor[1] * 1000) \div scale_factor[2]

(* The cell counts and upper bounds of lines 978-1003. *)
Lattice(bounds, scale_factor) ==
    LET lon_min == bounds[1]
        lon_max == bounds[2]
        lat_min == bounds[3]
        lat_max == bounds[4]
        nx_cells == np_round(Abs(lon_min - lon_max), CELL_SIZE)
        ny_cells == np_round(Abs(lat_min - lat_max), CELL_SIZE)
        diff == Abs(nx_cells - ny_cells)
        grow_y == short_axis_extended(ny_cells, nx_cells)
        grow_x == short_axis_extended(nx_cells, ny_cells)
    IN [nx_cells_out |-> nx_cells,
        ny_cells_out |-> ny_cells,
        lon_max_out |-> lon_max,
        lat_max_out |-> lat_max,
        nx_cells |-> IF grow_x THEN nx_cells + diff ELSE nx_cells,
        ny_cells |-> IF grow_y THEN ny_cells + diff ELSE ny_cells,
        lon_max |-> IF grow_x THEN lon_max + diff * CELL_SIZE ELSE lon_max,
        lat_max |-> IF grow_y THEN lat_max + diff * CELL_SIZE ELSE lat_max,
        n_lons |-> n_nodes(IF grow_x THEN nx_cells + diff ELSE nx_cells, scale_factor),
        n_lats |-> n_nodes(IF grow_y THEN ny_cells + diff ELSE ny_cells, scale_factor),
        n_lons_out |-> n_nodes(nx_cells, scale_factor),
        n_lats_out |-> n_nodes(ny_cells, scale_factor)]

(* The estimates on a lattice of n_rows by n_cols nodes: the estimate at    *)
(* row y, column x (from 0, rows running north from lat_min) is named by   *)
(* its node <<y, x>>.  valuesGrid[y][x] of _invDist and ZI = rbf(XI, YI).  *)
Estimates(n_rows, n_cols) ==
    [r \in 1..n_rows |-> [c \in 1..n_cols |-> <<r - 1, c - 1>>]]

(* ZI[0:n_rows, 0:n_cols] *)
clip(ZI, n_rows, n_cols) ==
    [r \in 1..(IF n_rows < Len(ZI) THEN n_rows ELSE Len(ZI)) |->
        SubSeq(ZI[r], 1, n_cols)]

(* np.flip(ZI, axis=0) *)
np_flip(ZI) == [r \in 1..Len(ZI) |-> ZI[Len(ZI) + 1 - r]]

(* _deg_to_frac_cells for out_coords = linspace(lo, hi, n_cells). *)
_deg_to_frac_cells(lo, hi, n_cells, points) ==
    [i \in DOMAIN points |-> (Abs(lo - points[i]) * n_cells) \div Abs(lo - hi)]

(* Optional numbers: <<>> is None, <<p>> the power p, <<num, den>> the     *)
(* smoothing num/den.  "not x" holds of None and of zero.                  *)
not(opt) == opt = <<>> \/ opt[1] = 0

inverse_dist == <<"inverse", "dist">>

(* The raster path of lines 922-934. *)
raster_path(path, var_name, out, scale_factor, function) ==
    [dir |-> grid_var(path) \o function \o <<Meters(str(res(scale_factor)))>>,
     out |-> out,
     file |-> var_name]

interpolate(path, var_name, out, scale_factor, function, smooth, power, bounds, buffer, zonal_stats, gridmet_meta_path) ==
    LET raised(e) == [exc |-> e, did |-> "raised", zonal |-> "none",
                      rasters |-> rasters, csv |-> csv]
        meta == resolve_meta(gridmet_meta_path)
        df == read_csv(path)
        out_file == raster_path(path, var_name, out, scale_factor, function)
        all_values == Column(df, var_name)
        mask == [i \in DOMAIN all_values |-> ~isnan(all_values[i])]
        n_missing == Cardinality({i \in DOMAIN mask : ~mask[i]})
        any_nan == n_missing > 0
        kept == SelectSeq([i \in DOMAIN mask |-> i], LAMBDA i : mask[i])
        values == [k \in DOMAIN kept |-> all_values[kept[k]].v]
        lon_pts == [k \in DOMAIN kept |-> df.rows[kept[k]][<<"STATION", "LON">>]]
        lat_pts == [k \in DOMAIN kept |-> df.rows[kept[k]][<<"STATION", "LAT">>]]
        b == IF bounds = <<>> THEN get_subgrid_bounds(path, buffer)
             ELSE [exc |-> OK, value |-> bounds]
        lon_min == b.value[1]
        lat_min == b.value[3]
        g == Lattice(b.value, scale_factor)
        band == IF function = inverse_dist
                THEN [function |-> function,
                      smooth |-> IF not(smooth) THEN <<10, 1>> ELSE smooth,
                      power |-> IF not(power) THEN <<3>> ELSE power,
                      xv |-> _deg_to_frac_cells(lon_min, g.lon_max_out, g.n_lons_out, lon_pts),
                      yv |-> _deg_to_frac_cells(lat_min, g.lat_max_out, g.n_lats_out, lat_pts),
                      values |-> values,
                      shape |-> <<g.n_lats_out, g.n_lons_out>>,
                      array |-> np_flip(Estimates(g.n_lats_out, g.n_lons_out))]
                ELSE [function |-> function,
                      smooth |-> IF not(smooth) THEN <<0 - 1, 1000>> ELSE smooth,
                      power |-> <<>>,
                      xv |-> lon_pts,
                      yv |-> lat_pts,
                      values |-> values,
                      shape |-> <<g.n_lats, g.n_lons>>,
                      array |-> np_flip(clip(Estimates(g.n_lats, g.n_lons),
                                             g.n_lats_out, g.n_lons_out))]
        tiff == [gt |-> <<lon_min, <<CELL_SIZE, scale_factor>>, g.lat_max_out>>,
                 x_size |-> g.n_lons_out,
                 y_size |-> g.n_lats_out,
                 band |-> band]
        saved == [f \in DOMAIN rasters \cup {out_file} |->
                    IF f = out_file THEN tiff ELSE rasters[f]]
        zs == gridmet_zonal_stats(path, out_file, saved, csv)
    IN IF ~isfile(path) THEN raised(FileNotFoundError)
       ELSE IF meta.exc # OK THEN raised(meta.exc)
       ELSE IF \A i \in DOMAIN df.columns : df.columns[i] # var_name THEN raised(KeyError)
       ELSE IF any_nan /\ (Len(mask) = n_missing \/ Len(mask) = 1)
       THEN [exc |-> OK, did |-> "skipping", zonal |-> "none",
             rasters |-> rasters, csv |-> csv]
       ELSE IF b.exc # OK THEN raised(b.exc)
       ELSE IF ~zonal_stats
       THEN [exc |-> OK, did |-> "saved", zonal |-> "none",
             rasters |-> saved, csv |-> csv]
       ELSE [exc |-> zs.exc, did |-> "saved", zonal |-> zs.did,
             rasters |-> saved, csv |-> zs.csv]

----------------------------------------------------------------------------
(* main *)

(* '_mean' in c and not 'June_to' in c *)
is_mean_column(c) ==
    /\ \E i \in 2..Len(c) : c[i] = "mean"
    /\ ~\E i \in 1..(Len(c) - 1) : c[i] = "June" /\ c[i + 1] = "to"

mean_columns(df) == SelectSeq(df.columns, is_mean_column)

(* main is not running: before its first call (pc "none"), after it has    *)
(* returned or after an exception has left it.  n counts the columns        *)
(* interpolate was called for.                                             *)
NotCalled == [pc |-> "none", buffer |-> 0, function |-> <<>>, overwrite |-> FALSE,
              gridmet_meta_path |-> None, n |-> 0]

----------------------------------------------------------------------------
(* The file-system model: calls of the module's functions on one directory *)

BoundsArgs == {<<>>}

BufferArgs == {0, 1}

(* Catalog arguments of the file-system model: none, or a file that exists. *)
GivenMeta == {None, "meta.csv"}

Jan_mean == <<"Jan", "mean">>

(* Input tables: two stations with every mean but Jan_mean, which only the *)
(* first station has, or none.                                             *)
InputTables == {InputTable(SubSeq(Sites, 1, 2), {<<2, Jan_mean>>}),
                InputTable(SubSeq(Sites, 1, 2), {<<1, Jan_mean>>, <<2, Jan_mean>>})}

(* ret: the call made last, the arguments the properties below speak of,  *)
(* the exception it raised (or OK), the branch it took (did) and the branch *)
(* its zonal aggregation took (zonal).                                     *)
NoArgs == [path |-> <<>>, bounds |-> <<>>, buffer |-> 0, overwrite |-> FALSE,
           gridmet_meta_path |-> None, var_name |-> <<>>,
           raster |-> [dir |-> <<>>, out |-> None, file |-> <<>>]]

(* Nothing was called and no file was written. *)
NothingWritten ==
    /\ spatial = [f \in {} |-> 0]
    /\ rasters = [f \in {} |-> 0]
    /\ csv = [f \in {} |-> 0]
    /\ ret = [op |-> "none", args |-> NoArgs, exc |-> OK, did |-> "none",
              zonal |-> "none"]
    /\ main = NotCalled

(* The same where gridwxcomp is not an installed package and the working   *)
(* directory holds no catalog.                                             *)
NoCalls ==
    /\ pkg = "raises"
    /\ cwd_meta = FALSE
    /\ NothingWritten

Init ==
    /\ in_df \in InputTables
    /\ in_file = in_path
    /\ cell_data = Catalog
    /\ pts = <<>>
    /\ NoCalls

PathArgs == {in_path, no_path}

Annual_mean == <<"Annual", "mean">>

VarArgs == {Jan_mean, Annual_mean}

FunctionArgs == {<<"linear">>}

MakeGrid(path, bounds, buffer, overwrite, gridmet_meta_path) ==
    \E r \in {make_grid(path, bounds, buffer, overwrite, gridmet_meta_path)} :
       /\ spatial' = r.spatial
       /\ ret' = [op |-> "make_grid",
                  args |-> [NoArgs EXCEPT !.path = path, !.bounds = bounds,
                               !.buffer = buffer, !.overwrite = overwrite,
                               !.gridmet_meta_path = gridmet_meta_path],
                  exc |-> r.exc, did |-> r.did, zonal |-> "none"]
       /\ UNCHANGED <<in_df, in_file, cell_data, pkg, cwd_meta, rasters, csv, pts, main>>

Interpolate(path, var_name, function, buffer, zonal_stats, gridmet_meta_path) ==
    \E r \in {interpolate(path, var_name, None, <<1, 1>>, function, <<>>, <<>>, <<>>,
                         buffer, zonal_stats, gridmet_meta_path)} :
       /\ rasters' = r.rasters
       /\ csv' = r.csv
       /\ ret' = [op |-> "interpolate",
                  args |-> [NoArgs EXCEPT !.path = path, !.var_name = var_name,
                               !.gridmet_meta_path = gridmet_meta_path,
                               !.raster = raster_path(path, var_name, None, <<1, 1>>, function)],
                  exc |-> r.exc, did |-> r.did, zonal |-> r.zonal]
       /\ UNCHANGED <<in_df, in_file, cell_data, pkg, cwd_meta, spatial, pts, main>>

ZonalStats(path, raster) ==
    \E r \in {gridmet_zonal_stats(path, raster, rasters, csv)} :
       /\ csv' = r.csv
       /\ ret' = [op |-> "gridmet_zonal_stats",
                  args |-> [NoArgs EXCEPT !.path = path, !.raster = raster,
                               !.var_name = raster.file],
                  exc |-> r.exc, did |-> "none", zonal |-> r.did]
       /\ UNCHANGED <<in_df, in_file, cell_data, pkg, cwd_meta, spatial, rasters, pts, main>>

----------------------------------------------------------------------------
(* get_subgrid_bounds on the tables of up to MaxPts stations *)

CentroidSites ==
    {[LON |-> x, LAT |-> y, STATION_LON |-> x, STATION_LAT |-> y] :
        x \in Range(CatalogLons), y \in Range(CatalogLats)}

PointTables ==
    {InputTable(s, {}) : s \in UNION {[1..n -> CentroidSites] : n \in 0..MaxPts}}

InitBounds ==
    /\ in_df \in PointTables
    /\ in_file = in_path
    /\ cell_data = Catalog
    /\ pts = <<>>
    /\ NoCalls

GetSubgridBounds(path, buffer) ==
    /\ ret.op = "none"
    /\ \E r \in {get_subgrid_bounds(path, buffer)} :
          ret' = [op |-> "get_subgrid_bounds",
                  args |-> [path |-> path, buffer |-> buffer],
                  exc |-> r.exc, value |-> r.value]
    /\ UNCHANGED <<in_df, in_file, cell_data, pkg, cwd_meta, spatial, rasters, csv, pts, main>>

NextBounds ==
    \E path \in PathArgs, buffer \in 0..MaxBuffer : GetSubgridBounds(path, buffer)

SpecBounds == InitBounds /\ [][NextBounds]_vars

----------------------------------------------------------------------------
(* get_cell_ID on the catalogs of distinct centroids *)

RECURSIVE Rows(_, _)
Rows(table, keep) ==
    IF table = <<>> THEN <<>>
    ELSE Rows(SubSeq(table, 1, Len(table) - 1), keep)
         \o (IF Len(table) \in keep THEN <<table[Len(table)]>> ELSE <<>>)

Catalogs == {Rows(Catalog, keep) : keep \in SUBSET DOMAIN Catalog}

(* Lower left corners of the cells looked up: on and off the catalog's lattice. *)
CornerLons == 0..(SetMax(Range(CatalogLons)) + 1)
CornerLats == 0..(SetMax(Range(CatalogLats)) + 1)

InitCell ==
    /\ in_df \in {InputTable(<<>>, {})}
    /\ in_file = in_path
    /\ cell_data \in Catalogs
    /\ pts = <<>>
    /\ NoCalls

GetCellID(xl, yb) ==
    /\ ret.op = "none"
    /\ \E coords \in {Ring(xl, xl + CELL_SIZE, yb + CELL_SIZE, yb)} :
          ret' = [op |-> "get_cell_ID", args |-> [coords |-> coords],
                  exc |-> OK, value |-> get_cell_ID(coords, cell_data)]
    /\ UNCHANGED <<in_df, in_file, cell_data, pkg, cwd_meta, spatial, rasters, csv, pts, main>>

NextCell == \E xl \in CornerLons, yb \in CornerLats : GetCellID(xl, yb)

SpecCell == InitCell /\ [][NextCell]_vars

----------------------------------------------------------------------------
(* _pointValue on up to MaxPts data points *)

PointXs == {0, 1, 24}
PointYs == {0, 1}
PointValues == {1, 3}
PowerArgs == {1, 2, 3}
SmoothingArgs == {0, 1, 10}

DataPoints == {[x |-> x, y |-> y, v |-> v] : x \in PointXs, y \in PointYs, v \in PointValues}

InitIDW ==
    /\ in_df \in {InputTable(<<>>, {})}
    /\ in_file = in_path
    /\ cell_data = Catalog
    /\ pts \in UNION {[1..n -> DataPoints] : n \in 0..MaxPts}
    /\ NoCalls

PointValue(x, y, power, smoothing) ==
    /\ ret.op = "none"
    /\ \E xv \in {[i \in DOMAIN pts |-> pts[i].x]}, yv \in {[i \in DOMAIN pts |-> pts[i].y]},
          values \in {[i \in DOMAIN pts |-> pts[i].v]} :
          /\ \A i \in DOMAIN pts :
                HasPow(dist_squared(x, y, smoothing, xv, yv, i), power)
          /\ ret' = [op |-> "_pointValue",
                     args |-> [x |-> x, y |-> y, power |-> power, smoothing |-> smoothing],
                     exc |-> OK,
                     value |-> _pointValue(x, y, power, smoothing, xv, yv, values)]
    /\ UNCHANGED <<in_df, in_file, cell_data, pkg, cwd_meta, spatial, rasters, csv, pts, main>>

NextIDW ==
    \E x \in PointXs, y \in PointYs, power \in PowerArgs, smoothing \in SmoothingArgs :
        PointValue(x, y, power, smoothing)

SpecIDW == InitIDW /\ [][NextIDW]_vars

----------------------------------------------------------------------------
(* interpolate with the tuning arguments given or left None *)

TunedFunctions == {inverse_dist, <<"linear">>}
SmoothArgs == {<<>>, <<0, 1>>, <<5, 1>>}
PowerOptions == {<<>>, <<0>>, <<2>>}

InterpolateWith(function, smooth, power) ==
    /\ \E r \in {interpolate(in_path, Annual_mean, None, <<1, 1>>, function, smooth, power,
                             <<>>, 0, FALSE, "meta.csv")} :
          /\ rasters' = r.rasters
          /\ csv' = r.csv
          /\ ret' = [op |-> "interpolate",
                     args |-> [path |-> in_path, var_name |-> Annual_mean,
                               function |-> function, smooth |-> smooth,
                               power |-> power,
                               raster |-> raster_path(in_path, Annual_mean, None, <<1, 1>>,
                                                      function)],
                     exc |-> r.exc, did |-> r.did, zonal |-> r.zonal]
    /\ UNCHANGED <<in_df, in_file, cell_data, pkg, cwd_meta, spatial, pts, main>>

NextTune ==
    \E function \in TunedFunctions, smooth \in SmoothArgs, power \in PowerOptions :
        InterpolateWith(function, smooth, power)

SpecTune == Init /\ [][NextTune]_vars

----------------------------------------------------------------------------
(* make_grid and interpolate where the catalog is looked for *)

(* pkg_resources.resource_exists answers True ("exists") or False          *)
(* ("absent"), or raises because gridwxcomp is no installed package.       *)
PkgAnswers == {"exists", "absent", "raises"}

(* gridmet_meta_path is None, or names a file that exists or does not. *)
MetaArgs == {None, "meta.csv", "missing.csv"}

InitCatalog ==
    /\ in_df \in InputTables
    /\ in_file = in_path
    /\ cell_data = Catalog
    /\ pts = <<>>
    /\ pkg \in PkgAnswers
    /\ cwd_meta \in BOOLEAN
    /\ NothingWritten

NextCatalog ==
    \/ \E overwrite \in BOOLEAN, gridmet_meta_path \in MetaArgs :
          MakeGrid(in_path, <<>>, 0, overwrite, gridmet_meta_path)
    \/ \E zonal_stats \in BOOLEAN, gridmet_meta_path \in MetaArgs :
          Interpolate(in_path, Annual_mean, <<"linear">>, 0, zonal_stats,
                      gridmet_meta_path)

SpecCatalog == InitCatalog /\ [][NextCatalog]_vars

----------------------------------------------------------------------------
(* interpolate and gridmet_zonal_stats on input files of several names *)

(* Input file names whose prefix before "_summary" has one, two and three  *)
(* parts.                                                                  *)
InputNames == {<<"etr", "summary", "comp", ".csv">>,
               in_path,
               <<"etr", "mm", "day", "summary", "comp", ".csv">>}

(* The method, out subdirectory and scale_factor of the calls. *)
NamedCalls ==
    {[function |-> <<"linear">>, out |-> None, scale_factor |-> <<1, 1>>],
     [function |-> inverse_dist, out |-> "custom", scale_factor |-> <<1, 1>>],
     [function |-> <<"thin", "plate">>, out |-> None, scale_factor |-> <<1, 2>>],
     [function |-> <<"linear">>, out |-> "custom", scale_factor |-> <<1, 2>>]}

InitNames ==
    /\ in_df \in {InputTable(SubSeq(Sites, 1, 2), {})}
    /\ in_file \in InputNames
    /\ cell_data = Catalog
    /\ pts = <<>>
    /\ NoCalls

InterpolateNamed(call, zonal_stats) ==
    /\ \E r \in {interpolate(in_file, Annual_mean, call.out, call.scale_factor,
                             call.function, <<>>, <<>>, <<>>, 0, zonal_stats,
                             "meta.csv")} :
          /\ rasters' = r.rasters
          /\ csv' = r.csv
          /\ ret' = [op |-> "interpolate",
                     args |-> [path |-> in_file, var_name |-> Annual_mean,
                               out |-> call.out, scale_factor |-> call.scale_factor,
                               function |-> call.function,
                               zonal_stats |-> zonal_stats,
                               raster |-> raster_path(in_file, Annual_mean, call.out,
                                                      call.scale_factor, call.function)],
                     exc |-> r.exc, did |-> r.did, zonal |-> r.zonal]
    /\ UNCHANGED <<in_df, in_file, cell_data, pkg, cwd_meta, spatial, pts, main>>

NextNames ==
    \/ \E overwrite \in BOOLEAN : MakeGrid(in_file, <<>>, 0, overwrite, "meta.csv")
    \/ \E call \in NamedCalls, zonal_stats \in BOOLEAN :
          InterpolateNamed(call, zonal_stats)
    \/ \E raster \in DOMAIN rasters : ZonalStats(in_file, raster)

SpecNames == InitNames /\ [][NextNames]_vars

----------------------------------------------------------------------------
(* make_grid alone, with the bounds given or taken from the input table *)

(* No bounds, bounds on cell edges, and bounds that end inside a cell. *)
(* interpolate over given bounds: lon_min, lon_max, lat_min, lat_max with  *)
(* spans of 2, 1.5, 2.5, 1 and 3 cells, at scale factors 1 and 0.4.        *)
LatticeBounds ==
    {<<2, 6, 2, 4>>, <<2, 4, 2, 8>>, <<2, 6, 2, 6>>, <<2, 5, 2, 4>>, <<2, 7, 2, 4>>}

ScaleArgs == {<<1, 1>>, <<2, 5>>}

LatticeFunctions == {inverse_dist, <<"linear">>}

InitLattice ==
    /\ in_df \in {InputTable(SubSeq(Sites, 1, 2), {})}
    /\ in_file = in_path
    /\ cell_data = Catalog
    /\ pts = <<>>
    /\ NoCalls

InterpolateOver(bounds, scale_factor, function) ==
    /\ \E r \in {interpolate(in_path, Annual_mean, None, scale_factor, function,
                             <<>>, <<>>, bounds, 0, FALSE, "meta.csv")} :
          /\ rasters' = r.rasters
          /\ csv' = r.csv
          /\ ret' = [op |-> "interpolate",
                     args |-> [path |-> in_path, var_name |-> Annual_mean,
                               scale_factor |-> scale_factor, function |-> function,
                               bounds |-> bounds,
                               raster |-> raster_path(in_path, Annual_mean, None,
                                                      scale_factor, function)],
                     exc |-> r.exc, did |-> r.did, zonal |-> r.zonal]
    /\ UNCHANGED <<in_df, in_file, cell_data, pkg, cwd_meta, spatial, pts, main>>

NextLattice ==
    \E bounds \in LatticeBounds, scale_factor \in ScaleArgs, function \in LatticeFunctions :
        InterpolateOver(bounds, scale_factor, function)

SpecLattice == InitLattice /\ [][NextLattice]_vars

(* The extents of the grid and of the raster over the same bounds, in      *)
(* double arithmetic.  CELL_SIZE = 1/24 is not a binary fraction: for       *)
(* bounds that span a whole number of cells the quotient span / CELL_SIZE   *)
(* comes out as that number or as a value a few units in the last place    *)
(* below or above it; err is -1, 0 or 1 accordingly.                        *)
quotient(cells, err) == [whole |-> cells, err |-> err]

(* ceil(q) of make_grid *)
float_ceil(q) == IF q.err > 0 THEN q.whole + 1 ELSE q.whole

(* int(np.round(np.abs(q))) of interpolate *)
float_round(q) == q.whole

MaxSpan == 4

SpanErrors == {0 - 1, 0, 1}

ScaleFactors == {<<1, 1>>, <<1, 2>>, <<2, 5>>, <<3, 10>>, <<1, 10>>}

(* make_grid and interpolate over the same bounds of x_cells by y_cells. *)
GridAndRaster(x_cells, y_cells, x_err, y_err, scale_factor) ==
    /\ ret' = [op |-> "extent",
               args |-> [x_cells |-> x_cells, y_cells |-> y_cells,
                         x_err |-> x_err, y_err |-> y_err,
                         scale_factor |-> scale_factor],
               rows |-> float_ceil(quotient(y_cells, y_err)),
               cols |-> float_ceil(quotient(x_cells, x_err)),
               nx_cells_out |-> float_round(quotient(x_cells, x_err)),
               ny_cells_out |-> float_round(quotient(y_cells, y_err)),
               x_size |-> n_nodes(float_round(quotient(x_cells, x_err)), scale_factor),
               y_size |-> n_nodes(float_round(quotient(y_cells, y_err)), scale_factor),
               exc |-> OK]
    /\ UNCHANGED <<in_df, in_file, cell_data, pkg, cwd_meta, spatial, rasters, csv, pts, main>>

NextExtent ==
    \E x_cells \in 1..MaxSpan, y_cells \in 1..MaxSpan, x_err \in SpanErrors,
       y_err \in SpanErrors, scale_factor \in ScaleFactors :
        GridAndRaster(x_cells, y_cells, x_err, y_err, scale_factor)

SpecExtent == InitLattice /\ [][NextExtent]_vars

GridBounds == {<<>>, <<2, 6, 2, 4>>, <<2, 5, 2, 4>>}

NextGrid ==
    \E path \in PathArgs, bounds \in GridBounds, buffer \in 0..MaxBuffer,
       overwrite \in BOOLEAN, gridmet_meta_path \in GivenMeta :
        MakeGrid(path, bounds, buffer, overwrite, gridmet_meta_path)

SpecGrid == Init /\ [][NextGrid]_vars

(* make_points_file and make_grid for input files whose variable prefix    *)
(* does or does not hold '_tmp'.                                            *)
PrefixedNames == {in_path, <<"etr", "tmp", "summary", "comp", ".csv">>}

InitFiles ==
    /\ in_df \in InputTables
    /\ in_file \in PrefixedNames
    /\ cell_data = Catalog
    /\ pts = <<>>
    /\ NoCalls

MakePoints(path) ==
    /\ \E r \in {make_points_file(path)} :
          /\ spatial' = r.spatial
          /\ ret' = [op |-> "make_points_file",
                     args |-> [NoArgs EXCEPT !.path = path],
                     exc |-> r.exc, did |-> "none", zonal |-> "none"]
    /\ UNCHANGED <<in_df, in_file, cell_data, pkg, cwd_meta, rasters, csv, pts, main>>

NextFiles ==
    \/ MakePoints(in_file)
    \/ \E bounds \in GridBounds, buffer \in 0..MaxBuffer, overwrite \in BOOLEAN,
          gridmet_meta_path \in GivenMeta :
            MakeGrid(in_file, bounds, buffer, overwrite, gridmet_meta_path)

SpecFiles == InitFiles /\ [][NextFiles]_vars

----------------------------------------------------------------------------
(* A call of main, one step for each function it calls. *)
MainCall(buffer, function, overwrite, gridmet_meta_path) ==
    /\ main.pc \in {"none", "returned", "raised"}
    /\ main' = [pc |-> "make_points_file", buffer |-> buffer, function |-> function,
                overwrite |-> overwrite, gridmet_meta_path |-> gridmet_meta_path,
                n |-> 0]
    /\ ret' = [op |-> "main", args |-> [NoArgs EXCEPT !.path = in_path],
               exc |-> OK, did |-> "none", zonal |-> "none"]
    /\ UNCHANGED <<in_df, in_file, cell_data, pkg, cwd_meta, spatial, rasters, csv, pts>>

MainPoints ==
    /\ main.pc = "make_points_file"
    /\ \E r \in {make_points_file(in_path)} :
          /\ spatial' = r.spatial
          /\ ret' = [op |-> "make_points_file",
                     args |-> [NoArgs EXCEPT !.path = in_path],
                     exc |-> r.exc, did |-> "none", zonal |-> "none"]
          /\ main' = [main EXCEPT !.pc = IF r.exc = OK THEN "make_grid" ELSE "raised"]
    /\ UNCHANGED <<in_df, in_file, cell_data, pkg, cwd_meta, rasters, csv, pts>>

MainGrid ==
    /\ main.pc = "make_grid"
    /\ \E buffer \in {main.buffer}, overwrite \in {main.overwrite},
          gridmet_meta_path \in {main.gridmet_meta_path} :
       \E r \in {make_grid(in_path, <<>>, buffer, overwrite, gridmet_meta_path)} :
          /\ spatial' = r.spatial
          /\ ret' = [op |-> "make_grid",
                     args |-> [NoArgs EXCEPT !.path = in_path,
                                  !.buffer = buffer,
                                  !.overwrite = overwrite,
                                  !.gridmet_meta_path = gridmet_meta_path],
                     exc |-> r.exc, did |-> r.did, zonal |-> "none"]
          /\ main' = [main EXCEPT !.pc =
                         IF r.exc # OK THEN "raised"
                         ELSE IF mean_columns(read_csv(in_path)) = <<>> THEN "returned"
                         ELSE "interpolate"]
    /\ UNCHANGED <<in_df, in_file, cell_data, pkg, cwd_meta, rasters, csv, pts>>

MainInterpolate ==
    /\ main.pc = "interpolate"
    /\ \E cols \in {mean_columns(read_csv(in_path))} :
       \E v \in {cols[main.n + 1]}, function \in {main.function},
          buffer \in {main.buffer}, gridmet_meta_path \in {main.gridmet_meta_path} :
       \E r \in {interpolate(in_path, v, None, <<1, 1>>, function, <<>>, <<>>, <<>>,
                             buffer, TRUE, gridmet_meta_path)} :
          /\ rasters' = r.rasters
          /\ csv' = r.csv
          /\ ret' = [op |-> "interpolate",
                     args |-> [NoArgs EXCEPT !.path = in_path, !.var_name = v,
                                  !.gridmet_meta_path = gridmet_meta_path,
                                  !.raster = raster_path(in_path, v, None, <<1, 1>>, function)],
                     exc |-> r.exc, did |-> r.did, zonal |-> r.zonal]
          /\ main' = [main EXCEPT !.n = main.n + 1,
                                  !.pc = IF r.exc # OK THEN "raised"
                                         ELSE IF main.n + 1 = Len(cols) THEN "returned"
                                         ELSE "interpolate"]
    /\ UNCHANGED <<in_df, in_file, cell_data, pkg, cwd_meta, spatial, pts>>

NextMain ==
    \/ \E buffer \in BufferArgs, function \in FunctionArgs, overwrite \in BOOLEAN,
          gridmet_meta_path \in GivenMeta :
            MainCall(buffer, function, overwrite, gridmet_meta_path)
    \/ MainPoints
    \/ MainGrid
    \/ MainInterpolate

SpecMain == Init /\ [][NextMain]_vars

(* One call of main in a directory without a grid and without tables. *)
NextFresh ==
    \/ /\ main.pc = "none"
       /\ \E buffer \in BufferArgs, function \in FunctionArgs, overwrite \in BOOLEAN,
             gridmet_meta_path \in GivenMeta :
               MainCall(buffer, function, overwrite, gridmet_meta_path)
    \/ MainPoints
    \/ MainGrid
    \/ MainInterpolate

SpecFresh == Init /\ [][NextFresh]_vars

Next ==
    \/ \E path \in PathArgs, bounds \in BoundsArgs, buffer \in BufferArgs,
          overwrite \in BOOLEAN, gridmet_meta_path \in GivenMeta :
            MakeGrid(path, bounds, buffer, overwrite, gridmet_meta_path)
    \/ \E path \in {in_path}, var_name \in VarArgs, function \in FunctionArgs,
          buffer \in BufferArgs, zonal_stats \in BOOLEAN,
          gridmet_meta_path \in GivenMeta :
            Interpolate(path, var_name, function, buffer, zonal_stats, gridmet_meta_path)
    \/ \E path \in {in_path}, raster \in DOMAIN rasters :
            ZonalStats(path, raster)

Spec == Init /\ [][Next]_vars

----------------------------------------------------------------------------
(* Properties of the file-system model *)

(* The step made a zonal aggregation, alone or at the end of interpolate. *)
ZonalStep == ret'.zonal # "none"

(* The summary table that aggregation reads and writes. *)
Target == summary_csv(ret'.args.path, ret'.args.raster)

(* C1: a gridmet_zonal_stats call whose summary table exists and has a     *)
(* column of the raster's variable writes nothing: every summary table is *)
(* after the call what it was before, whatever the raster and the grid.    *)
Thm_C1 ==
    [][(ZonalStep /\ ret'.args.path = in_path /\ Target \in DOMAIN csv
          /\ ret'.args.var_name \in Range(csv[Target].columns))
       => csv' = csv]_vars

(* A second aggregation of a variable has run, on a raster other than the  *)
(* one the stored column was computed from, and the column is as it was.   *)
Witness_C1 ==
    /\ ret.zonal = "passed"
    /\ ret.args.raster \in DOMAIN rasters
    /\ LET t == csv[summary_csv(ret.args.path, ret.args.raster)]
       IN /\ t.rows # <<>>
          /\ \A i \in DOMAIN t.rows :
                t.rows[i][ret.args.var_name].of # rasters[ret.args.raster]

(* C2: no summary table ever holds a row whose GRIDMET_ID is -999. *)
Thm_C2 ==
    \A t \in DOMAIN csv : \A i \in DOMAIN csv[t].rows :
        csv[t].rows[i][GRIDMET_ID] # NO_ID

(* A column was merged into a table from a grid that has cells outside the *)
(* catalog.                                                                *)
Witness_C2 ==
    /\ ret.zonal = "merged"
    /\ grid_shp \in DOMAIN spatial
    /\ \E k \in DOMAIN spatial[grid_shp].features :
          spatial[grid_shp].features[k].properties.GRIDMET_ID = NO_ID
    /\ csv[summary_csv(ret.args.path, ret.args.raster)].rows # <<>>

(* C3, as claimed: a merge leaves the previous columns, adds the one new   *)
(* column, and keeps every row of the table with the values it held.       *)
Cex_C3 ==
    [][(ret'.zonal = "merged")
       => /\ csv'[Target].columns = csv[Target].columns \o <<ret'.args.var_name>>
          /\ \A i \in DOMAIN csv[Target].rows :
                \E j \in DOMAIN csv'[Target].rows :
                   \A c \in Range(csv[Target].columns) :
                      csv'[Target].rows[j][c] = csv[Target].rows[i][c]]_vars

Cex_C5 ==
    [][(ret'.op = "make_grid" /\ ret'.args.overwrite /\ ret'.exc # OK
          /\ grid_shp \in DOMAIN spatial)
       => /\ grid_shp \in DOMAIN spatial'
          /\ spatial'[grid_shp] = spatial[grid_shp]]_vars

(* The number of stations with a value of the variable. *)
DefinedValues(var_name) ==
    Cardinality({i \in DOMAIN in_df.rows : ~isnan(in_df.rows[i][var_name])})

(* C8, as claimed: interpolate of a variable that fewer than 2 stations    *)
(* have a value of returns normally, writes no raster and leaves the       *)
(* summary tables alone (the input table and the catalog being found).     *)
Cex_C8 ==
    [][(/\ ret'.op = "interpolate"
        /\ ret'.args.path = in_path
        /\ resolve_meta(ret'.args.gridmet_meta_path).exc = OK
        /\ DefinedValues(ret'.args.var_name) < 2)
       => /\ ret'.exc = OK
          /\ rasters' = rasters
          /\ csv' = csv]_vars

----------------------------------------------------------------------------
(* Properties of main *)

(* C9, as claimed: when interpolate raises for one variable, main goes on  *)
(* to interpolate every remaining mean column: an exception never leaves   *)
(* main with columns it did not call interpolate for.                      *)
Cex_C9 ==
    (main.pc = "raised" /\ ret.op = "interpolate")
    => main.n = Len(mean_columns(in_df))

(* The point layer that make_points_file writes for the input file. *)
PointLayer == grid_var(in_path) \o <<"summary", "pts", ".shp">>

(* C25: in main the point layer is there when make_grid starts, the point
   layer and the grid are there when a variable is interpolated, and an
   aggregation that interpolate has started in main found the raster
   written and the grid in place: it did not raise FileNotFoundError. *)
Thm_C25 ==
    /\ main.pc = "make_grid" => PointLayer \in DOMAIN spatial
    /\ main.pc = "interpolate"
          => PointLayer \in DOMAIN spatial /\ grid_shp \in DOMAIN spatial
    /\ (ret.op = "interpolate" /\ ret.did = "saved")
          => /\ ret.zonal # "none"
             /\ ret.args.raster \in DOMAIN rasters
             /\ grid_shp \in DOMAIN spatial
             /\ ret.exc # FileNotFoundError

Witness_C25 ==
    /\ main.pc = "returned"
    /\ main.n > 1
    /\ ret.op = "interpolate" /\ ret.did = "saved" /\ ret.zonal = "merged"
    /\ ret.exc = OK

----------------------------------------------------------------------------
(* Properties of the pure functions *)

(* C7: for a table of at least one station and a buffer >= 0 the bounds    *)
(* are min(LON) - CELL/2 - buffer*CELL, max(LON) + CELL/2 + buffer*CELL    *)
(* and likewise for LAT; they strictly contain every (LON, LAT) of the     *)
(* table, and for buffer 0 every edge is half a cell beyond the extreme    *)
(* centroid.                                                               *)
Thm_C7 ==
    (ret.op = "get_subgrid_bounds" /\ ret.args.path = in_path /\ in_df.rows # <<>>)
    => LET lons == {in_df.rows[i][<<"LON">>] : i \in DOMAIN in_df.rows}
           lats == {in_df.rows[i][<<"LAT">>] : i \in DOMAIN in_df.rows}
           half == CELL_SIZE \div 2
           b == ret.args.buffer
       IN /\ ret.exc = OK
          /\ ret.value = << SetMin(lons) - half - b * CELL_SIZE,
                            SetMax(lons) + half + b * CELL_SIZE,
                            SetMin(lats) - half - b * CELL_SIZE,
                            SetMax(lats) + half + b * CELL_SIZE >>
          /\ \A lon \in lons : ret.value[1] < lon /\ lon < ret.value[2]
          /\ \A lat \in lats : ret.value[3] < lat /\ lat < ret.value[4]
          /\ b = 0 => /\ SetMin(lons) - ret.value[1] = half
                      /\ ret.value[2] - SetMax(lons) = half
                      /\ SetMin(lats) - ret.value[3] = half
                      /\ ret.value[4] - SetMax(lats) = half

(* Bounds of two stations at different longitudes and latitudes, buffered. *)
Witness_C7 ==
    /\ ret.op = "get_subgrid_bounds"
    /\ ret.exc = OK
    /\ ret.args.buffer > 0
    /\ Len(in_df.rows) > 1
    /\ in_df.rows[1][<<"LON">>] > in_df.rows[2][<<"LON">>]
    /\ in_df.rows[1][<<"LAT">>] < in_df.rows[2][<<"LAT">>]

(* C6: a cell whose centroid, its lower left corner plus half a cell in    *)
(* each axis, is the (LON, LAT) of a catalog row gets that row's           *)
(* GRIDMET_ID; a cell whose centroid is in no catalog row gets -999, and   *)
(* the lookup does not raise.                                              *)
Thm_C6 ==
    ret.op = "get_cell_ID"
    => LET ll == ret.args.coords[4]
           lon == ll[1] + CELL_SIZE \div 2
           lat == ll[2] + CELL_SIZE \div 2
           hits == {k \in DOMAIN cell_data :
                      cell_data[k].LON = lon /\ cell_data[k].LAT = lat}
       IN /\ ret.exc = OK
          /\ \A k \in hits : ret.value = cell_data[k].GRIDMET_ID
          /\ hits = {} => ret.value = NO_ID

(* A cell of the catalog was given its identifier while another cell of    *)
(* the lattice is missing from the catalog.                                *)
Witness_C6 ==
    /\ ret.op = "get_cell_ID"
    /\ ret.value # NO_ID
    /\ Len(cell_data) > 1
    /\ Len(cell_data) < Len(Catalog)

(* C10, as claimed: evaluated at the location of data point i, _pointValue *)
(* returns values[i] for every power and every smoothing.  Stated for data *)
(* points at pairwise different locations.                                 *)
Cex_C10 ==
    (/\ ret.op = "_pointValue"
     /\ \A i, j \in DOMAIN pts :
           (pts[i].x = pts[j].x /\ pts[i].y = pts[j].y) => i = j)
    => \A i \in DOMAIN pts :
         (ret.args.x = pts[i].x /\ ret.args.y = pts[i].y)
         => ret.value = [num |-> pts[i].v, den |-> 1]

(* C11, as claimed: _pointValue returns the same value for every           *)
(* re-ordering of the data points, also when two of them share a location  *)
(* and carry different values.                                             *)
Cex_C11 ==
    ret.op = "_pointValue"
    => \A p \in [DOMAIN pts -> DOMAIN pts] :
         (\A i, j \in DOMAIN pts : p[i] = p[j] => i = j)
         => _pointValue(ret.args.x, ret.args.y, ret.args.power, ret.args.smoothing,
                        [i \in DOMAIN pts |-> pts[p[i]].x],
                        [i \in DOMAIN pts |-> pts[p[i]].y],
                        [i \in DOMAIN pts |-> pts[p[i]].v]) = ret.value

(* d_i^2 + smoothing^2 for the last call and data point i. *)
SquaredSum(i) ==
    (ret.args.x - pts[i].x) * (ret.args.x - pts[i].x)
        + (ret.args.y - pts[i].y) * (ret.args.y - pts[i].y)
        + ret.args.smoothing * ret.args.smoothing

(* 1/w_i = (d_i^2 + smoothing^2)^(power/2) *)
InverseWeight(i) ==
    IF ret.args.power % 2 = 0 THEN SquaredSum(i) ^ (ret.args.power \div 2)
    ELSE Sqrt(SquaredSum(i)) ^ ret.args.power

(* C22: when no data point lies on the node, _pointValue returns the value
   r with sum((values[i] - r) * w_i) = 0, that is sum(values[i]*w_i)/sum(w_i),
   for w_i = 1/(d_i^2 + smoothing^2)^(power/2); for two points at the same
   distance from the node that is the arithmetic mean of their values; and
   it returns -999 exactly when there is no data point. *)
Thm_C22 ==
    (/\ ret.op = "_pointValue"
     /\ \A i \in DOMAIN pts : ~(ret.args.x = pts[i].x /\ ret.args.y = pts[i].y)
     /\ \A i \in DOMAIN pts : ret.args.power % 2 = 0 \/ IsSquare(SquaredSum(i)))
    => LET r == ret.value
           n == Len(pts)
           others(i) == Product([j \in 1..n |-> IF j = i THEN 1 ELSE InverseWeight(j)])
       IN /\ r.den > 0
          /\ (r = [num |-> NO_ID, den |-> 1]) <=> (n = 0)
          /\ n > 0 => Sum([i \in 1..n |-> (pts[i].v * r.den - r.num) * others(i)]) = 0
          /\ (n = 2 /\ SquaredSum(1) = SquaredSum(2))
                => 2 * r.num = (pts[1].v + pts[2].v) * r.den

Witness_C22 ==
    /\ ret.op = "_pointValue"
    /\ Len(pts) = 2
    /\ \A i \in DOMAIN pts : ~(ret.args.x = pts[i].x /\ ret.args.y = pts[i].y)
    /\ SquaredSum(1) = SquaredSum(2)
    /\ pts[1].v # pts[2].v
    /\ ret.args.power = 2 /\ ret.args.smoothing = 0
    /\ ret.value = [num |-> 2, den |-> 1]

----------------------------------------------------------------------------
(* Properties of interpolate's arguments *)

(* C12, as claimed: the defaults (smoothing 10 and power 3 for             *)
(* inverse_dist, smoothing -0.001 for a radial basis function) are used    *)
(* only when the argument is None; every value given, 0 included, is what  *)
(* the interpolation is computed with.                                     *)
Cex_C12 ==
    (ret.op = "interpolate" /\ ret.did = "saved")
    => LET band == rasters[ret.args.raster].band
       IN IF ret.args.function = inverse_dist
          THEN /\ band.smooth = IF ret.args.smooth = <<>> THEN <<10, 1>>
                                ELSE ret.args.smooth
               /\ band.power = IF ret.args.power = <<>> THEN <<3>>
                               ELSE ret.args.power
          ELSE band.smooth = IF ret.args.smooth = <<>> THEN <<0 - 1, 1000>>
                             ELSE ret.args.smooth

----------------------------------------------------------------------------
(* Properties of the catalog lookup *)

(* The packaged catalog is there to be used. *)
PackagedCatalog == pkg = "exists"

(* C13, as claimed: without an explicit path the packaged catalog is used, *)
(* and ./gridmet_cell_data.csv when there is no packaged catalog; a call   *)
(* of make_grid (through _update_subgrid) or interpolate that finds        *)
(* neither raises FileNotFoundError, and a call that finds one gets past   *)
(* the lookup.                                                             *)
Cex_C13 ==
    (/\ ret.op \in {"make_grid", "interpolate"}
     /\ ret.args.gridmet_meta_path = None
     /\ ret.did # "not overwriting")
    => IF PackagedCatalog \/ cwd_meta
       THEN ret.did \in {"saved", "skipping"}
       ELSE ret.exc = FileNotFoundError

----------------------------------------------------------------------------
(* Properties of the names of rasters and summary tables *)

(* C14, as claimed: a zonal aggregation without spatial/grid.shp raises    *)
(* FileNotFoundError and leaves every summary table as it was.             *)
Cex_C14 ==
    [][(ret'.zonal # "none" /\ grid_shp \notin DOMAIN spatial)
       => ret'.exc = FileNotFoundError /\ csv' = csv]_vars

(* The summary table C16 names for the last interpolate call. *)
ClaimedTable ==
    grid_var(in_file) \o <<"gridmet", "summary">> \o ret.args.function
        \o <<Meters(str(res(ret.args.scale_factor))), ".csv">>

(* C16, as claimed: for every prefix of the input file name, method, out   *)
(* subdirectory and resolution, the aggregation that interpolate runs on   *)
(* the raster it saved recovers the method, the resolution and the         *)
(* variable from the raster's path and writes the variable's column to     *)
(* <grid_var>_gridmet_summary_<method>_<res>m.csv.                         *)
Cex_C16 ==
    (/\ ret.op = "interpolate"
     /\ ret.did = "saved"
     /\ ret.args.zonal_stats
     /\ grid_shp \in DOMAIN spatial)
    => /\ ret.exc = OK
       /\ reg_exp(ret.args.raster) =
             [matched |-> TRUE,
              function |-> ret.args.function,
              res |-> str(res(ret.args.scale_factor)),
              var_name |-> ret.args.var_name]
       /\ ClaimedTable \in DOMAIN csv
       /\ ret.args.var_name \in Range(csv[ClaimedTable].columns)

----------------------------------------------------------------------------
(* More properties of the pure functions *)

(* C15, as claimed: get_subgrid_bounds raises FileNotFoundError when the   *)
(* path names no file and when the table has no rows, returns bounds in    *)
(* every other case and raises nothing else.                               *)
Cex_C15 ==
    ret.op = "get_subgrid_bounds"
    => IF ret.args.path # in_file \/ in_df.rows = <<>>
       THEN ret.exc = FileNotFoundError
       ELSE ret.exc = OK

----------------------------------------------------------------------------
(* Properties of one call of main in an empty directory *)

(* The identifiers of the cells of the grid layer. *)
GridIDs ==
    {spatial[grid_shp].features[k].properties.GRIDMET_ID :
        k \in DOMAIN spatial[grid_shp].features}

(* C17: during and after a call of main in a directory that had no grid    *)
(* and no summary table, every summary table holds exactly the GRIDMET_ID  *)
(* values of the cells of the grid that the call built, but for -999.      *)
Thm_C17 ==
    \A t \in DOMAIN csv :
        /\ grid_shp \in DOMAIN spatial
        /\ {csv[t].rows[i][GRIDMET_ID] : i \in DOMAIN csv[t].rows}
             = GridIDs \ {NO_ID}

(* main has returned: its grid has cells outside the catalog and its table *)
(* has rows and the columns of several variables.                          *)
Witness_C17 ==
    /\ main.pc = "returned"
    /\ grid_shp \in DOMAIN spatial
    /\ NO_ID \in GridIDs
    /\ \E t \in DOMAIN csv :
          /\ csv[t].rows # <<>>
          /\ Jan_mean \in Range(csv[t].columns)
          /\ Annual_mean \in Range(csv[t].columns)

----------------------------------------------------------------------------
(* Properties of make_grid *)

(* The cells of a grid layer: where each lies and its identifier. *)
Cells(layer) ==
    {[zone |-> PolygonBounds(layer.features[k].geometry),
      properties |-> layer.features[k].properties] : k \in DOMAIN layer.features}

(* The bounding extent of a set of cells. *)
Extent(cells) ==
    << SetMin({c.zone[1] : c \in cells}), SetMin({c.zone[2] : c \in cells}),
       SetMax({c.zone[3] : c \in cells}), SetMax({c.zone[4] : c \in cells}) >>

(* C18: a make_grid call with overwrite=True that follows a call with the  *)
(* same input table, bounds, buffer, catalog path and overwrite=True       *)
(* leaves a grid with as many cells, the same identifier in every cell and *)
(* the same bounding extent as the first call left.                        *)
Thm_C18 ==
    [][(/\ ret.op = "make_grid"
        /\ ret'.op = "make_grid"
        /\ ret'.args = ret.args
        /\ ret'.args.overwrite
        /\ grid_shp \in DOMAIN spatial)
       => /\ grid_shp \in DOMAIN spatial'
          /\ Len(spatial'[grid_shp].features) = Len(spatial[grid_shp].features)
          /\ Cells(spatial'[grid_shp]) = Cells(spatial[grid_shp])
          /\ Extent(Cells(spatial'[grid_shp])) = Extent(Cells(spatial[grid_shp]))
          /\ ret'.exc = ret.exc]_vars

(* The second of two equal calls with overwrite=True has rebuilt a grid    *)
(* that has cells of the catalog and cells outside it.                     *)
Witness_C18 ==
    /\ ret.op = "make_grid"
    /\ ret.did = "saved"
    /\ ret.args.overwrite
    /\ ret.args.buffer > 0
    /\ grid_shp \in DOMAIN spatial
    /\ \E c \in Cells(spatial[grid_shp]) : c.properties.GRIDMET_ID = NO_ID
    /\ \E c \in Cells(spatial[grid_shp]) : c.properties.GRIDMET_ID # NO_ID

(* C19: after any sequence of make_grid calls, a grid that is on disk has
   a GRIDMET_ID attribute on every one of its cells. *)
Cex_C19 ==
    grid_shp \in DOMAIN spatial
        => \A k \in 1..Len(spatial[grid_shp].features) :
               "GRIDMET_ID" \in DOMAIN spatial[grid_shp].features[k].properties

----------------------------------------------------------------------------
(* Properties of the lattice of interpolate *)

Max(a, b) == IF a > b THEN a ELSE b

(* C20: with nx and ny the rounded spans in cells, after interpolate over
   given bounds both working counts are max(nx, ny), only the upper bound
   of the axis with fewer cells has grown, by the difference in cells times
   the cell size, the *_out values are the original counts and upper
   bounds, and the raster written has the size of the original counts and
   its origin at (lon_min, original lat_max). *)
Thm_C20 ==
    (ret.op = "interpolate" /\ ret.did = "saved")
        => LET b == ret.args.bounds
               s == ret.args.scale_factor
               nx == np_round(Abs(b[1] - b[2]), CELL_SIZE)
               ny == np_round(Abs(b[3] - b[4]), CELL_SIZE)
               m == Max(nx, ny)
               g == Lattice(b, s)
               t == rasters[ret.args.raster]
           IN /\ g.nx_cells = m /\ g.ny_cells = m
              /\ g.nx_cells - nx = (IF nx < ny THEN Abs(nx - ny) ELSE 0)
              /\ g.ny_cells - ny = (IF ny < nx THEN Abs(nx - ny) ELSE 0)
              /\ g.lon_max = b[2] + (m - nx) * CELL_SIZE
              /\ g.lat_max = b[4] + (m - ny) * CELL_SIZE
              /\ g.nx_cells_out = nx /\ g.ny_cells_out = ny
              /\ g.lon_max_out = b[2] /\ g.lat_max_out = b[4]
              /\ t.x_size = n_nodes(nx, s) /\ t.y_size = n_nodes(ny, s)
              /\ t.gt[1] = b[1] /\ t.gt[3] = b[4]
              /\ (ret.args.function # inverse_dist
                    => t.band.shape = <<n_nodes(m, s), n_nodes(m, s)>>)

Witness_C20 ==
    /\ ret.op = "interpolate" /\ ret.did = "saved" /\ ret.exc = OK
    /\ ret.args.function # inverse_dist
    /\ ret.args.raster \in DOMAIN rasters
    /\ rasters[ret.args.raster].x_size < rasters[ret.args.raster].y_size
    /\ rasters[ret.args.raster].band.shape[2] > rasters[ret.args.raster].x_size

(* C21, as claimed: for both methods the array written to a raster has
   y_size rows of x_size columns, the size of the lattice before it was
   made square, and its row r (from 0) holds the estimates of lattice row
   y_size - 1 - r, so that row 0 lies on the northern edge, the lat_max
   before the extension, and the last row on lat_min.  The latitude of row
   y of the lattice of a radial basis function is
   lat_min + y * (lat_max - lat_min) / (n_lats - 1). *)
Cex_C21 ==
    (ret.op = "interpolate" /\ ret.did = "saved")
        => LET b == ret.args.bounds
               g == Lattice(b, ret.args.scale_factor)
               t == rasters[ret.args.raster]
               a == t.band.array
           IN /\ Len(a) = t.y_size /\ t.y_size = g.n_lats_out
              /\ t.x_size = g.n_lons_out
              /\ \A r \in 0..(Len(a) - 1) :
                    /\ Len(a[r + 1]) = t.x_size
                    /\ \A c \in 0..(t.x_size - 1) :
                          a[r + 1][c + 1] = <<t.y_size - 1 - r, c>>
              /\ a[Len(a)][1][1] = 0
              /\ (ret.args.function # inverse_dist
                    => a[1][1][1] * (g.lat_max - b[3]) = (b[4] - b[3]) * (g.n_lats - 1))

(* The bounds the last make_grid call built its grid over. *)
UsedBounds ==
    IF ret.args.bounds = <<>>
    THEN get_subgrid_bounds(ret.args.path, ret.args.buffer).value
    ELSE ret.args.bounds

(* The least n with n * CELL_SIZE >= span. *)
CellsAcross(span) ==
    CHOOSE n \in 0..(span + 1) : n * CELL_SIZE >= span /\ (n - 1) * CELL_SIZE < span

(* C23: a grid that make_grid has built has rows * cols cells for
   rows = ceil((ymax-ymin)/CELL_SIZE) and cols = ceil((xmax-xmin)/CELL_SIZE);
   for every column i and row j (from 0) exactly one cell is the square of
   one cell size with left edge xmin + i*CELL_SIZE and top edge
   ymax - j*CELL_SIZE, so that no two cells overlap; and the cells reach at
   least xmax in the east and ymin in the south. *)
Thm_C23 ==
    (ret.op = "make_grid" /\ ret.did = "saved")
        => LET xmin == UsedBounds[1]
               xmax == UsedBounds[2]
               ymin == UsedBounds[3]
               ymax == UsedBounds[4]
               rows == CellsAcross(ymax - ymin)
               cols == CellsAcross(xmax - xmin)
               F == spatial[grid_shp].features
               square(i, j) == <<xmin + i * CELL_SIZE, ymax - (j + 1) * CELL_SIZE,
                                 xmin + (i + 1) * CELL_SIZE, ymax - j * CELL_SIZE>>
           IN /\ Len(F) = rows * cols
              /\ \A i \in 0..(cols - 1), j \in 0..(rows - 1) :
                    Cardinality({k \in DOMAIN F :
                                   PolygonBounds(F[k].geometry) = square(i, j)}) = 1
              /\ \A k \in DOMAIN F :
                    F[k].geometry =
                        Ring(PolygonBounds(F[k].geometry)[1], PolygonBounds(F[k].geometry)[3],
                             PolygonBounds(F[k].geometry)[4], PolygonBounds(F[k].geometry)[2])
              /\ xmin + cols * CELL_SIZE >= xmax
              /\ ymax - rows * CELL_SIZE <= ymin

Witness_C23 ==
    /\ ret.op = "make_grid" /\ ret.did = "saved"
    /\ ret.args.bounds # <<>>
    /\ (UsedBounds[2] - UsedBounds[1]) % CELL_SIZE # 0
    /\ Len(spatial[grid_shp].features) = 2

(* C24, as claimed: the first cell of a grid that make_grid has built is
   the north-west corner cell and the cells follow row by row, going east
   along a row before moving south: cell k (from 0) of the layer lies in
   column k mod cols of row k div cols. *)
Cex_C24 ==
    (ret.op = "make_grid" /\ ret.did = "saved")
        => LET xmin == UsedBounds[1]
               ymax == UsedBounds[4]
               cols == CellsAcross(UsedBounds[2] - xmin)
               F == spatial[grid_shp].features
           IN \A k \in 0..(Len(F) - 1) :
                 /\ PolygonBounds(F[k + 1].geometry)[1] = xmin + (k % cols) * CELL_SIZE
                 /\ PolygonBounds(F[k + 1].geometry)[4] = ymax - (k \div cols) * CELL_SIZE

----------------------------------------------------------------------------
(* Properties of the grid and the raster over the same bounds *)

(* C26, as claimed: over the same bounds of a whole number of cells the
   counts of interpolate, round(span/CELL_SIZE), are the cols and rows of
   make_grid, ceil(span/CELL_SIZE), and the raster of round(n/scale_factor)+1
   pixels of CELL_SIZE*scale_factor from (lon_min, lat_max) reaches at
   least as far east and south as the grid's cols and rows of cells. *)
Cex_C26 ==
    ret.op = "extent"
        => /\ ret.nx_cells_out = ret.cols
           /\ ret.ny_cells_out = ret.rows
           /\ ret.x_size * ret.args.scale_factor[1] >= ret.cols * ret.args.scale_factor[2]
           /\ ret.y_size * ret.args.scale_factor[1] >= ret.rows * ret.args.scale_factor[2]

----------------------------------------------------------------------------
(* Properties of the files of the spatial directory *)

(* C27, as claimed: a make_grid call leaves every file of the spatial
   directory other than the grid under its name and with its contents, a
   point layer of a variable prefix that holds '_tmp' included. *)
Cex_C27 ==
    [][ret'.op = "make_grid"
       => \A f \in DOMAIN spatial \ {grid_shp} :
             f \in DOMAIN spatial' /\ spatial'[f] = spatial[f]]_vars

====
